---- MODULE Spec2Model ----
(***************************************************************************)
(* Node-graph consistency of the pipeline-builder backend: the Node store, *)
(* the Horizon (workspace) records, and the request handlers that create,  *)
(* re-parent, delete, re-activate, synchronise and read nodes.             *)
(*                                                                         *)
(* Ids are small naturals.  0 stands for null / undefined.  A node id that *)
(* is never stored (Ghost) stands for a well-formed ObjectId string that   *)
(* references no document.                                                 *)
(***************************************************************************)
EXTENDS Integers, Sequences, FiniteSets, TLC

\* ---------------------------------------------------------------- bounds
MaxNodes == 3        \* node documents the store can hold
MaxOps == 4
MaxTime == 5
MaxFails == 5                        \* onFail: maxFails = 5
LockTicks == 3                       \* onFail: lockMinutes = 15, three clock units          \* requests served in one behaviour of Spec

\* ------------------------------------------------------------- universes
NodeIds == 1..MaxNodes
Ghost == MaxNodes + 1
NodeRefs == 0..Ghost                 \* null, a stored id, or a dangling id
HorizonIds == {1, 2}
NoHorizon == 3                       \* a well-formed id of no horizon
HorizonRefs == {0} \cup HorizonIds \cup {NoHorizon}
Users == {1, 2}
AgentIds == {1, 2}
NoAgentId == 3                       \* a well-formed id of no agent
\* names as clients send them; the second carries surrounding blanks
Names == {"Alpha", " Beta "}
\* the two classes of the type enum the graph code tells apart
NodeTypes == {"agentNode", "outputNode"}

VARIABLES
  nodes,      \* the "nodes" collection: id -> document
  horizons,   \* the "horizons" collection: id -> document
  last,       \* the response of the request served last
  ops,        \* number of requests served
  procs,      \* requests in flight, one record per concurrent request
  agents,     \* the "agents" collection: id -> document
  teams,      \* the "teams" collection: id -> document
  lockData,   \* the lockout map of the login route: email -> record
  now         \* the server clock, in units of five minutes

vars == <<nodes, horizons, last, ops, procs, agents, teams, lockData, now>>

\* ------------------------------------------------------------- documents
NoNode ==
  [exists |-> FALSE, userId |-> 0, horizonId |-> 0, type |-> "agentNode",
   parentId |-> 0, children |-> <<>>, inputNodeIds |-> <<>>,
   isActive |-> FALSE]

NewNode(u, h, t, p, inp) ==
  [exists |-> TRUE, userId |-> u, horizonId |-> h, type |-> t,
   parentId |-> p, children |-> <<>>, inputNodeIds |-> inp,
   isActive |-> TRUE]

NoResponse ==
  [op |-> "none", status |-> 0, h |-> 0, id |-> 0, desc |-> {},
   count |-> 0, writes |-> 0, prevWrites |-> -1, view |-> <<>>, edges |-> <<>>,
   from |-> 0, sent |-> {}, by |-> 0, before |-> {}, email |-> "",
   code |-> "", compared |-> FALSE]

Response(op, status, h, id) ==
  [NoResponse EXCEPT !.op = op, !.status = status, !.h = h, !.id = id]

\* ------------------------------------------------------- sequence helpers
RECURSIVE SetToSeq(_)
SetToSeq(S) ==
  IF S = {} THEN <<>>
  ELSE LET m == CHOOSE x \in S : \A y \in S : x <= y
       IN <<m>> \o SetToSeq(S \ {m})

Range(s) == {s[i] : i \in 1..Len(s)}

\* a $pull that removes nothing
PullNothing(s, x) == s

Pull(s, x) == SelectSeq(s, LAMBDA e : e # x)

AddToSet(s, x) == IF x \in Range(s) THEN s ELSE Append(s, x)

\* ------------------------------------------------------------ store reads
Stored(store) == {n \in NodeIds : store[n].exists}

ActiveIn(store, h) ==
  {n \in Stored(store) : store[n].horizonId = h /\ store[n].isActive}

\* ObjectIds are minted in increasing order, so id order is creation order
FreshIds(store) == NodeIds \ Stored(store)
NextId(store) == CHOOSE n \in FreshIds(store) : \A m \in FreshIds(store) : n <= m

HasAccess(hz, u, requiredRole) ==
  IF hz.userId = u THEN TRUE
  ELSE IF hz.isPublic /\ requiredRole = "viewer" THEN TRUE
  ELSE IF hz.sharedWith[u] = "none" THEN FALSE
  ELSE IF requiredRole = "viewer" THEN TRUE
  ELSE IF requiredRole = "editor" THEN hz.sharedWith[u] = "editor"
  ELSE FALSE

\* horizon.stats.nodeCount = await Node.countDocuments({horizonId, isActive})
WithNodeCount(hz, store, h) ==
  [hz EXCEPT !.stats.nodeCount = Cardinality(ActiveIn(store, h))]

\* ... and edgeCount = countDocuments({horizonId, isActive, parentId != null})
WithEdgeCount(hz, store, h) ==
  [hz EXCEPT !.stats.edgeCount =
     Cardinality({n \in ActiveIn(store, h) : store[n].parentId # 0})]

\* pre("save") of the horizon schema: the stats are derived from the
\* embedded arrays of the horizon document itself
HorizonPreSave(hz) ==
  [hz EXCEPT !.stats = [nodeCount |-> hz.embedded, edgeCount |-> 0]]

\* ------------------------------------------------------------------ Init
InitNodes == [n \in NodeIds |-> NoNode]

InitHorizons ==
  [h \in HorizonIds |->
     [userId |-> h, isActive |-> TRUE, isPublic |-> FALSE,
      \* workspace 1 is shared with user 2 as editor, workspace 2 with
      \* user 1 as viewer
      sharedWith |-> [u \in Users |-> IF h = 1 /\ u = 2 THEN "editor"
                                      ELSE IF h = 2 /\ u = 1 THEN "viewer"
                                      ELSE "none"],
      embedded |-> h - 1,      \* length of the legacy nodes array of the document
      stats |-> [nodeCount |-> 0, edgeCount |-> 0]]]

NoAgent ==
  [exists |-> FALSE, userId |-> 0, name |-> "", isActive |-> FALSE,
   isPublic |-> FALSE, teamId |-> 0]

InitAgents == [a \in AgentIds |-> NoAgent]

TeamIds == {1, 2}

NoTeam == [exists |-> FALSE, userId |-> 0, horizonId |-> 0, isActive |-> FALSE]

InitTeams == [t \in TeamIds |-> NoTeam]

\* email addresses as clients send them; the second carries a blank and
\* capitals.  ann has a password, bob signed up through OAuth and has
\* none, zed has no account.
RawEmails == {"ann@x.io", " Ann@X.io", "bob@x.io", "zed@x.io"}
Emails == {"ann@x.io", "bob@x.io", "zed@x.io"}
Passwords == {"right", "wrong"}

\* no entry in the map: lockData.get(email) || {fails: 0, lockedUntil: null}
NoLock == [fails |-> 0, lockedUntil |-> 0]

InitLockData == [e \in Emails |-> NoLock]

\* a DELETE /nodes/:id request in flight: its position in the handler and
\* the handler's locals; before is the set of descendants of the target
\* when the request arrived; turn is the parity of the number of loop
\* iterations findDescendants has run
IdleProc ==
  [pc |-> "idle", user |-> 0, target |-> 0, horizonId |-> 0, parentId |-> 0,
   queue |-> <<>>, descendants |-> <<>>, turn |-> 0, todo |-> <<>>,
   count |-> 0, status |-> 0, before |-> {}, saved |-> 0]

Procs == {1, 2}

Init ==
  /\ nodes = InitNodes
  /\ horizons = InitHorizons
  /\ last = NoResponse
  /\ ops = 0
  /\ procs = [p \in Procs |-> IdleProc]
  /\ agents = InitAgents
  /\ teams = InitTeams
  /\ lockData = InitLockData
  /\ now = 0

\* ------------------------------------------------- Node.findDescendants
\* Node.find({horizonId, parentId, isActive: true}) in natural (id) order
\* the same query without the isActive filter
ChildrenOfAnyState(store, h, cur) ==
  SetToSeq({c \in Stored(store) :
              /\ store[c].horizonId = h
              /\ store[c].parentId = cur})

ChildrenOf(store, h, cur) ==
  SetToSeq({c \in Stored(store) :
              /\ store[c].horizonId = h
              /\ store[c].parentId = cur
              /\ store[c].isActive})

\* One iteration of the while loop: shift the queue, query the children of
\* the shifted id, push every child on descendants and on the queue.
\* an iteration that records the children but does not queue them
BfsStepShallow(store, h, st) ==
  LET kids == ChildrenOf(store, h, Head(st.queue))
  IN [queue |-> Tail(st.queue), descendants |-> st.descendants \o kids]

BfsStep(store, h, st) ==
  LET kids == ChildrenOf(store, h, Head(st.queue))
  IN [queue |-> Tail(st.queue) \o kids, descendants |-> st.descendants \o kids]

\* The loop, run for at most `fuel` iterations.  On a store without a
\* parentId cycle every id is queued at most once, so MaxNodes + 1
\* iterations empty the queue; done = FALSE means the loop is still running
\* after that many iterations.
RECURSIVE BfsRun(_, _, _, _)
BfsRun(store, h, st, fuel) ==
  IF st.queue = <<>> THEN [done |-> TRUE, descendants |-> st.descendants]
  ELSE IF fuel = 0 THEN [done |-> FALSE, descendants |-> st.descendants]
  ELSE BfsRun(store, h, BfsStep(store, h, st), fuel - 1)

FindDescendants(store, nodeId, h) ==
  BfsRun(store, h, [queue |-> <<nodeId>>, descendants |-> <<>>], MaxNodes + 1)

\* ------------------------------------------------------------ POST /nodes
CreateNode(u, h, t, p, inp) ==
  /\ ops < MaxOps
  /\ ops' = ops + 1
  /\ UNCHANGED <<procs, agents, teams, lockData, now>>
  /\ IF h = 0
     THEN /\ last' = Response("createNode", 400, 0, 0)
          /\ UNCHANGED <<nodes, horizons>>
     ELSE IF h \notin HorizonIds \/ ~horizons[h].isActive
     THEN /\ last' = Response("createNode", 404, 0, 0)
          /\ UNCHANGED <<nodes, horizons>>
     ELSE IF ~HasAccess(horizons[h], u, "editor")
     THEN /\ last' = Response("createNode", 403, 0, 0)
          /\ UNCHANGED <<nodes, horizons>>
     ELSE /\ FreshIds(nodes) # {}
          /\ LET id == NextId(nodes)
                 saved == [nodes EXCEPT ![id] = NewNode(u, h, t, p, inp)]
                 linked == IF p # 0 /\ p \in Stored(saved)
                           THEN [saved EXCEPT ![p].children = AddToSet(@, id)]
                           ELSE saved
             IN /\ nodes' = linked
                /\ horizons' = [horizons EXCEPT ![h] =
                                 HorizonPreSave(WithNodeCount(@, linked, h))]
                /\ last' = [Response("createNode", 201, h, id) EXCEPT
                              !.view = <<[id |-> id, parentId |-> p]>>]

\* --------------------------------------------------------- PUT /nodes/:id
\* t = "keep" and p = -1 stand for a field that is absent from the body
UpdateNode(u, id, t, p) ==
  /\ ops < MaxOps
  /\ ops' = ops + 1
  /\ UNCHANGED <<procs, horizons, agents, teams, lockData, now>>
  /\ IF id \notin Stored(nodes) \/ ~nodes[id].isActive
     THEN /\ last' = Response("updateNode", 404, 0, 0)
          /\ UNCHANGED nodes
     ELSE LET node == nodes[id]
              h == node.horizonId
          IN IF h \notin HorizonIds \/ ~HasAccess(horizons[h], u, "editor")
             THEN /\ last' = Response("updateNode", 403, 0, 0)
                  /\ UNCHANGED nodes
             ELSE LET typed == IF t # "keep" THEN [nodes EXCEPT ![id].type = t]
                               ELSE nodes
                      old == node.parentId
                      pulled == IF old # 0 /\ old \in Stored(typed)
                                THEN [typed EXCEPT ![old].children = Pull(@, id)]
                                ELSE typed
                      added == IF p # 0 /\ p \in Stored(pulled)
                               THEN [pulled EXCEPT ![p].children = AddToSet(@, id)]
                               ELSE pulled
                  IN /\ nodes' = IF p # -1 /\ p # old
                                 THEN [added EXCEPT ![id].parentId = p]
                                 ELSE typed
                     \* from: the parentId of the document as it was loaded
                     /\ last' = [Response("updateNode", 200, h, id) EXCEPT !.from = old]

\* ------------------------------------------------------ DELETE /nodes/:id
\* updateOne in place of updateMany: only the first matching document
DeactivateFirstOnly(store, ids) ==
  [n \in NodeIds |->
     IF n \in ids /\ store[n].exists /\ (\A m \in ids : store[m].exists => n <= m)
     THEN [store[n] EXCEPT !.isActive = FALSE]
     ELSE store[n]]

\* updateMany({_id: {$in: ids}}, {isActive: false})
Deactivate(store, ids) ==
  [n \in NodeIds |->
     IF n \in ids /\ store[n].exists THEN [store[n] EXCEPT !.isActive = FALSE]
     ELSE store[n]]

\* updateMany({horizonId, parentId: id, isActive: true}, {parentId: null})
ClearChildrenOf(store, h, id) ==
  [n \in NodeIds |->
     IF /\ store[n].exists /\ store[n].horizonId = h
        /\ store[n].parentId = id /\ store[n].isActive
     THEN [store[n] EXCEPT !.parentId = 0]
     ELSE store[n]]

\* find({horizonId, isActive: true, parentId: {$ne: null}})
ActiveWithParent(store, h) == {n \in ActiveIn(store, h) : store[n].parentId # 0}

\* findOne({_id: parentId, isActive: true}): any workspace
ParentExists(store, n) ==
  LET p == store[n].parentId IN p \in Stored(store) /\ store[p].isActive

\* the cleanup loop of the delete handler over its snapshot of nodes
CleanupOrphans(store, h) ==
  [n \in NodeIds |->
     IF n \in ActiveWithParent(store, h) /\ ~ParentExists(store, n)
     THEN [store[n] EXCEPT !.parentId = 0]
     ELSE store[n]]

DeleteNode(u, id) ==
  /\ ops < MaxOps
  /\ ops' = ops + 1
  /\ UNCHANGED <<procs, agents, teams, lockData, now>>
  /\ IF id \notin Stored(nodes) \/ ~nodes[id].isActive
     THEN /\ last' = Response("deleteNode", 404, 0, 0)
          /\ UNCHANGED <<nodes, horizons>>
     ELSE LET node == nodes[id]
              h == node.horizonId
          IN IF h \notin HorizonIds \/ ~HasAccess(horizons[h], u, "editor")
             THEN /\ last' = Response("deleteNode", 403, 0, 0)
                  /\ UNCHANGED <<nodes, horizons>>
             ELSE LET run == FindDescendants(nodes, id, h)
                      gone == Deactivate(nodes, {id} \cup Range(run.descendants))
                      cleared == ClearChildrenOf(gone, h, id)
                      pulled == IF node.parentId # 0 /\ node.parentId \in Stored(cleared)
                                THEN [cleared EXCEPT ![node.parentId].children = Pull(@, id)]
                                ELSE cleared
                  IN \* the handler answers only when the traversal returns
                     /\ run.done
                     /\ nodes' = CleanupOrphans(pulled, h)
                     /\ horizons' = [horizons EXCEPT ![h] =
                           HorizonPreSave(WithNodeCount(@, CleanupOrphans(pulled, h), h))]
                     /\ last' = [Response("deleteNode", 200, h, id) EXCEPT
                                   !.desc = Range(run.descendants),
                                   !.count = Len(run.descendants)]

\* ------------------------------------------- PATCH /nodes/:id/reactivate
\* the handler without its check of the node's type
ReactivateAnyType(u, id) ==
  /\ ops < MaxOps
  /\ ops' = ops + 1
  /\ UNCHANGED <<procs, horizons, agents, teams, lockData, now>>
  /\ IF id \notin Stored(nodes)
     THEN /\ last' = Response("reactivateOutput", 404, 0, 0)
          /\ UNCHANGED nodes
     ELSE LET h == nodes[id].horizonId
          IN IF h \notin HorizonIds \/ ~HasAccess(horizons[h], u, "editor")
             THEN /\ last' = Response("reactivateOutput", 403, 0, 0)
                  /\ UNCHANGED nodes
             ELSE /\ nodes' = [nodes EXCEPT ![id].isActive = TRUE]
                  /\ last' = [Response("reactivateOutput", 200, h, id) EXCEPT
                                !.writes = IF nodes[id].isActive THEN 0 ELSE 1]

ReactivateOutput(u, id) ==
  /\ ops < MaxOps
  /\ ops' = ops + 1
  /\ UNCHANGED <<procs, horizons, agents, teams, lockData, now>>
  /\ IF id \notin Stored(nodes)
     THEN /\ last' = Response("reactivateOutput", 404, 0, 0)
          /\ UNCHANGED nodes
     ELSE IF nodes[id].type # "outputNode"
     THEN /\ last' = Response("reactivateOutput", 400, 0, 0)
          /\ UNCHANGED nodes
     ELSE LET h == nodes[id].horizonId
          IN IF h \notin HorizonIds \/ ~HasAccess(horizons[h], u, "editor")
             THEN /\ last' = Response("reactivateOutput", 403, 0, 0)
                  /\ UNCHANGED nodes
             ELSE \* save() writes the paths that changed
                  /\ nodes' = [nodes EXCEPT ![id].isActive = TRUE]
                  /\ last' = [Response("reactivateOutput", 200, h, id) EXCEPT
                                !.writes = IF nodes[id].isActive THEN 0 ELSE 1]

\* ------------------------------- proxyAgentRequest: auto-save outputNode
AgentRun(u, h, agentNodeId) ==
  /\ ops < MaxOps
  /\ ops' = ops + 1
  /\ UNCHANGED <<procs, horizons, agents, teams, lockData, now>>
  /\ IF h = 0 \/ agentNodeId = 0
     THEN /\ last' = Response("agentRun", 200, h, 0)
          /\ UNCHANGED nodes
     ELSE /\ FreshIds(nodes) # {}
          /\ LET id == NextId(nodes)
                 saved == [nodes EXCEPT
                             ![id] = NewNode(u, h, "outputNode", agentNodeId, <<>>)]
                 old == {n \in ActiveIn(saved, h) :
                           /\ saved[n].parentId = agentNodeId
                           /\ saved[n].type = "outputNode"
                           /\ n # id}
                 retired == Deactivate(saved, old)
             IN /\ nodes' = IF agentNodeId \in Stored(retired)
                            THEN [retired EXCEPT ![agentNodeId].children = <<id>>]
                            ELSE retired   \* findById gave null: the save is abandoned
                /\ last' = Response("agentRun", 200, h,
                                    IF agentNodeId \in Stored(retired) THEN id ELSE 0)

\* ------------------------------------- HorizonSchema.buildEdgesFromNodes
\* an output node gets its parent edge like any other node
ParentEdgeUnvalidated(store, list, n) ==
  IF store[n].parentId = 0 THEN <<>>
  ELSE <<[source |-> store[n].parentId, target |-> n]>>

\* list: the node ids handed to the function, in iteration order
ParentEdge(store, list, n) ==
  LET p == store[n].parentId
  IN IF p = 0 THEN <<>>
     ELSE IF store[n].type = "outputNode"
     THEN IF /\ p \in Range(list)
             /\ store[p].type = "agentNode"
             /\ Len(store[p].children) > 0
             /\ store[p].children[1] = n
          THEN <<[source |-> p, target |-> n]>>
          ELSE <<>>
     ELSE <<[source |-> p, target |-> n]>>

RECURSIVE ParentEdges(_, _, _)
ParentEdges(store, list, i) ==
  IF i > Len(list) THEN <<>>
  ELSE ParentEdge(store, list, list[i]) \o ParentEdges(store, list, i + 1)

\* no pair is ever taken to be in the list
AlreadyExistsNever(edges, src, tgt) == FALSE

AlreadyExists(edges, src, tgt) ==
  \E k \in 1..Len(edges) : edges[k].source = src /\ edges[k].target = tgt

InputEdge(list, edges, src, tgt) ==
  IF ~AlreadyExists(edges, src, tgt) /\ src \in Range(list)
  THEN Append(edges, [source |-> src, target |-> tgt])
  ELSE edges

RECURSIVE InputEdgesOfNode(_, _, _, _, _)
InputEdgesOfNode(store, list, edges, n, j) ==
  IF j > Len(store[n].inputNodeIds) THEN edges
  ELSE InputEdgesOfNode(store, list,
                        InputEdge(list, edges, store[n].inputNodeIds[j], n), n, j + 1)

RECURSIVE InputEdges(_, _, _, _)
InputEdges(store, list, edges, i) ==
  IF i > Len(list) THEN edges
  ELSE InputEdges(store, list, InputEdgesOfNode(store, list, edges, list[i], 1), i + 1)

BuildEdgesFromNodes(store, list) ==
  InputEdges(store, list, ParentEdges(store, list, 1), 1)

\* ------------------------------------------------------ GET /horizons/:id
\* the read check of the handler: owner, any share, or public
CanRead(hz, u) == hz.userId = u \/ hz.sharedWith[u] # "none" \/ hz.isPublic

\* the filter without the validNodeIds test: every node that has a parent
NodesToCleanAnyParent(store, h) ==
  {n \in ActiveIn(store, h) : store[n].parentId # 0}

NodesToClean(store, h) ==
  {n \in ActiveIn(store, h) :
     store[n].parentId # 0 /\ store[n].parentId \notin ActiveIn(store, h)}

\* the cleanup write also retires the nodes it touches
RepairOrphansRetiring(store, h) ==
  [n \in NodeIds |->
     IF n \in NodesToClean(store, h)
     THEN [store[n] EXCEPT !.parentId = 0, !.isActive = FALSE]
     ELSE store[n]]

RepairOrphans(store, h) ==
  [n \in NodeIds |->
     IF n \in NodesToClean(store, h) THEN [store[n] EXCEPT !.parentId = 0]
     ELSE store[n]]

ViewNodes(store, h, valid) ==
  LET list == SetToSeq(ActiveIn(store, h))
  IN [i \in 1..Len(list) |->
        [id |-> list[i],
         parentId |-> IF store[list[i]].parentId \in valid
                      THEN store[list[i]].parentId ELSE 0]]

\* the handler with the orphan cleanup pass
GetHorizon(u, h) ==
  /\ ops < MaxOps
  /\ ops' = ops + 1
  /\ UNCHANGED <<procs, horizons, agents, teams, lockData, now>>
  /\ IF h \notin HorizonIds \/ ~horizons[h].isActive
     THEN /\ last' = Response("getHorizon", 404, 0, 0)
          /\ UNCHANGED nodes
     ELSE IF ~CanRead(horizons[h], u)
     THEN /\ last' = Response("getHorizon", 403, 0, 0)
          /\ UNCHANGED nodes
     ELSE LET repaired == RepairOrphans(nodes, h)
          IN /\ nodes' = repaired
             /\ last' = [Response("getHorizon", 200, h, 0) EXCEPT
                           !.writes = Cardinality(NodesToClean(nodes, h)),
                           !.prevWrites = IF /\ last.op = "getHorizon"
                                             /\ last.status = 200 /\ last.h = h
                                          THEN last.writes ELSE -1,
                           !.view = ViewNodes(repaired, h, ActiveIn(repaired, h)),
                           !.edges = BuildEdgesFromNodes(repaired,
                                        SetToSeq(ActiveIn(repaired, h)))]

\* the handler of routes/horizons.js: nodes are served as stored
GetHorizonAsStored(u, h) ==
  /\ ops < MaxOps
  /\ ops' = ops + 1
  /\ UNCHANGED <<procs, horizons, nodes, agents, teams, lockData, now>>
  /\ IF h \notin HorizonIds \/ ~horizons[h].isActive
     THEN last' = Response("getHorizonAsStored", 404, 0, 0)
     ELSE IF ~CanRead(horizons[h], u)
     THEN last' = Response("getHorizonAsStored", 403, 0, 0)
     ELSE last' = [Response("getHorizonAsStored", 200, h, 0) EXCEPT
                     !.view = ViewNodes(nodes, h, NodeRefs),
                     !.edges = BuildEdgesFromNodes(nodes, SetToSeq(ActiveIn(nodes, h)))]

\* ------------------------------------------------------ PUT /horizons/:id
\* present: the body carries a nodes list.  echo: the stored ids the list
\* names.  subT: the type the list gives the nodes it names, or "keep" for
\* the type each has in the store.  newT: the type of one node the client
\* has minted and the store has not seen, or "none".
\* deactivate: the handler of routes/horizons.js retires the active nodes
\* the list does not name; the later revision has that write commented out.
SubmittedType(store, n, subT) == IF subT = "keep" THEN store[n].type ELSE subT

SyncNodes(u, h, present, echo, subT, newT, deactivate, op) ==
  /\ ops < MaxOps
  /\ ops' = ops + 1
  /\ UNCHANGED <<procs, agents, teams, lockData, now>>
  /\ IF h \notin HorizonIds \/ ~horizons[h].isActive
     THEN /\ last' = Response(op, 404, 0, 0)
          /\ UNCHANGED <<nodes, horizons>>
     ELSE IF ~HasAccess(horizons[h], u, "editor")
     THEN /\ last' = Response(op, 403, 0, 0)
          /\ UNCHANGED <<nodes, horizons>>
     ELSE IF ~present
     THEN /\ UNCHANGED nodes
          /\ horizons' = [horizons EXCEPT ![h] =
                HorizonPreSave(WithEdgeCount(WithNodeCount(@, nodes, h), nodes, h))]
          /\ last' = Response(op, 200, h, 0)
     ELSE LET existing == ActiveIn(nodes, h)
              retired == IF deactivate THEN Deactivate(nodes, existing \ echo)
                         ELSE nodes
          IN IF echo \ existing # {}
             THEN \* insertMany of a stored _id: duplicate key, 500
                  /\ newT = "none"
                  /\ nodes' = retired
                  /\ UNCHANGED horizons
                  /\ last' = Response(op, 500, 0, 0)
             ELSE /\ newT # "none" => FreshIds(nodes) # {}
                  /\ LET id == IF newT = "none" THEN 0 ELSE NextId(nodes)
                         inserted == IF newT = "none" THEN retired
                                     ELSE [retired EXCEPT
                                             ![id] = NewNode(u, h, newT, 0, <<>>)]
                         named == echo \cup ({id} \ {0})
                         written ==
                           [n \in NodeIds |->
                              IF /\ n \in named /\ inserted[n].exists
                                 /\ inserted[n].userId = u
                                 /\ inserted[n].horizonId = h
                              THEN [inserted[n] EXCEPT
                                      !.type = IF n = id THEN newT
                                               ELSE SubmittedType(inserted, n, subT),
                                      !.isActive = TRUE]
                              ELSE inserted[n]]
                     IN /\ nodes' = written
                        /\ horizons' = [horizons EXCEPT ![h] =
                              HorizonPreSave(
                                WithEdgeCount(WithNodeCount(@, written, h), written, h))]
                        /\ last' = [Response(op, 200, h, id) EXCEPT
                              !.sent =
                                {[id |-> n, type |-> SubmittedType(nodes, n, subT)] :
                                   n \in echo}
                                \cup {[id |-> n, type |-> newT] : n \in {id} \ {0}}]

PutHorizon(u, h, present, echo, subT, newT) ==
  SyncNodes(u, h, present, echo, subT, newT, TRUE, "putHorizon")

PutHorizonKeeping(u, h, present, echo, subT, newT) ==
  SyncNodes(u, h, present, echo, subT, newT, FALSE, "putHorizonKeeping")

\* --------------------------------------------------- DELETE /horizons/:id
\* the handler without its updateMany on the nodes
DeleteHorizonAlone(u, h) ==
  /\ ops < MaxOps
  /\ ops' = ops + 1
  /\ UNCHANGED <<procs, agents, teams, lockData, now>>
  /\ IF h \notin HorizonIds \/ horizons[h].userId # u \/ ~horizons[h].isActive
     THEN /\ last' = Response("deleteHorizon", 404, 0, 0)
          /\ UNCHANGED <<nodes, horizons>>
     ELSE /\ horizons' = [horizons EXCEPT
                            ![h] = HorizonPreSave([@ EXCEPT !.isActive = FALSE])]
          /\ nodes' = nodes
          /\ last' = [Response("deleteHorizon", 200, h, 0) EXCEPT
                        !.writes = Cardinality(ActiveIn(nodes, h))]

DeleteHorizon(u, h) ==
  /\ ops < MaxOps
  /\ ops' = ops + 1
  /\ UNCHANGED <<procs, agents, teams, lockData, now>>
  /\ IF h \notin HorizonIds \/ horizons[h].userId # u \/ ~horizons[h].isActive
     THEN /\ last' = Response("deleteHorizon", 404, 0, 0)
          /\ UNCHANGED <<nodes, horizons>>
     ELSE /\ horizons' = [horizons EXCEPT
                            ![h] = HorizonPreSave([@ EXCEPT !.isActive = FALSE])]
          /\ nodes' = Deactivate(nodes, {n \in Stored(nodes) : nodes[n].horizonId = h})
          \* writes: the documents the updateMany modified
          /\ last' = [Response("deleteHorizon", 200, h, 0) EXCEPT
                        !.writes = Cardinality(ActiveIn(nodes, h))]

IsLive(n) == n \in Stored(nodes) /\ nodes[n].isActive

\* ------------------------------------------------------------------ Next
\* a parent reference a client can name: null, a stored id, or a dangling id
ParentRefs == {0, Ghost} \cup Stored(nodes)

\* the user with edit rights on the workspace of a stored node
EditorOf(id) ==
  IF id \in Stored(nodes) /\ nodes[id].horizonId \in HorizonIds
  THEN horizons[nodes[id].horizonId].userId ELSE 1

InHorizon(h) == {n \in Stored(nodes) : nodes[n].horizonId = h}

\* node lists a client submits: the canvas as served, the canvas less one
\* node, or the canvas with one node the store has retired
ClientLists(h) ==
  {ActiveIn(nodes, h)}
    \cup {ActiveIn(nodes, h) \ {n} : n \in ActiveIn(nodes, h)}
    \cup {ActiveIn(nodes, h) \cup {n} : n \in InHorizon(h)}

\* the other user: an editor of workspace 1, without edit rights on 2
Stranger(u) == CHOOSE v \in Users : v # u

\* requests of a workspace's editor, and one request for each refusal
Next ==
  \/ \E h \in HorizonIds, t \in NodeTypes, p \in ParentRefs :
        CreateNode(horizons[h].userId, h, t, p, <<>>)
  \/ \E h \in {0, NoHorizon} : CreateNode(1, h, "agentNode", 0, <<>>)
  \/ \E h \in HorizonIds : CreateNode(Stranger(horizons[h].userId), h, "agentNode", 0, <<>>)
  \/ \E id \in NodeIds, p \in {-1} \cup ParentRefs :
        UpdateNode(EditorOf(id), id, "keep", p)
  \/ \E id \in Stored(nodes), t \in NodeTypes : UpdateNode(EditorOf(id), id, t, -1)
  \/ \E id \in Stored(nodes) : UpdateNode(Stranger(EditorOf(id)), id, "keep", 0)
  \/ \E id \in NodeIds : DeleteNode(EditorOf(id), id)
  \/ \E id \in Stored(nodes) : DeleteNode(Stranger(EditorOf(id)), id)
  \/ \E id \in NodeIds : ReactivateOutput(EditorOf(id), id)
  \/ \E id \in Stored(nodes) : ReactivateOutput(Stranger(EditorOf(id)), id)
  \/ \E h \in HorizonIds, a \in ParentRefs : AgentRun(horizons[h].userId, h, a)
  \/ \E u \in Users, h \in HorizonIds : GetHorizon(u, h)
  \/ GetHorizon(1, NoHorizon)
  \/ \E u \in Users, h \in HorizonIds : GetHorizonAsStored(u, h)
  \/ GetHorizonAsStored(1, NoHorizon)
  \/ \E u \in Users, h \in HorizonIds : DeleteHorizon(u, h)
  \/ \E h \in HorizonIds : \E echo \in ClientLists(h), newT \in {"none", "agentNode"} :
        PutHorizon(horizons[h].userId, h, TRUE, echo, "keep", newT)
  \/ \E h \in HorizonIds : \E echo \in ClientLists(h), newT \in {"none", "agentNode"} :
        PutHorizonKeeping(horizons[h].userId, h, TRUE, echo, "keep", newT)
  \/ \E h \in HorizonIds :
        PutHorizon(Stranger(horizons[h].userId), h, FALSE, {}, "keep", "none")
  \/ \E h \in HorizonIds : PutHorizonKeeping(horizons[h].userId, h, FALSE, {}, "keep", "none")

Spec == Init /\ [][Next]_vars

\* ------------------------------------------------------------- SpecGraph
\* The tree operations alone, on nodes of one type: the shape of the graph
\* (parents, children, activity, workspaces) is all that varies.
NextGraph ==
  \/ \E h \in HorizonIds, p \in ParentRefs :
        CreateNode(horizons[h].userId, h, "agentNode", p, <<>>)
  \/ \E id \in Stored(nodes), p \in ParentRefs : UpdateNode(EditorOf(id), id, "keep", p)
  \/ \E id \in Stored(nodes) : DeleteNode(EditorOf(id), id)
  \/ \E h \in HorizonIds : GetHorizon(horizons[h].userId, h)
  \/ \E h \in HorizonIds : \E echo \in ClientLists(h) :
        PutHorizon(horizons[h].userId, h, TRUE, echo, "keep", "none")
  \/ \E h \in HorizonIds : DeleteHorizon(horizons[h].userId, h)

SpecGraph == Init /\ [][NextGraph]_vars

\* ------------------------------------------------------------ SpecCreate
\* POST /nodes alone, and the read of the workspace
NextCreate ==
  \/ \E h \in HorizonIds, t \in NodeTypes, p \in ParentRefs :
        CreateNode(horizons[h].userId, h, t, p, <<>>)
  \/ \E h \in HorizonIds : GetHorizon(horizons[h].userId, h)

SpecCreate == Init /\ [][NextCreate]_vars

\* ============================================= DELETE /nodes/:id by steps
\* The same handler, one action per await, for requests that interleave.
InFlight(p) == procs[p].pc \notin {"idle", "done"}

AllIdle == \A p \in Procs : procs[p].pc = "idle"

Finish(p, status) ==
  procs' = [procs EXCEPT ![p].pc = "done", ![p].status = status]

\* Node.findOne({_id, isActive: true})
DelFindNode(p) ==
  /\ procs[p].pc = "findNode"
  /\ UNCHANGED <<nodes, horizons, last, ops, agents, teams, lockData, now>>
  /\ LET id == procs[p].target
     IN IF id \notin Stored(nodes) \/ ~nodes[id].isActive
        THEN Finish(p, 404)
        ELSE procs' = [procs EXCEPT ![p].pc = "findHorizon",
                                    ![p].horizonId = nodes[id].horizonId,
                                    ![p].parentId = nodes[id].parentId]

\* Horizon.findById and the access check; findDescendants starts
DelFindHorizon(p) ==
  /\ procs[p].pc = "findHorizon"
  /\ UNCHANGED <<nodes, horizons, last, ops, agents, teams, lockData, now>>
  /\ LET h == procs[p].horizonId
     IN IF h \notin HorizonIds \/ ~HasAccess(horizons[h], procs[p].user, "editor")
        THEN Finish(p, 403)
        ELSE procs' = [procs EXCEPT ![p].pc = "bfs",
                                    ![p].queue = <<procs[p].target>>,
                                    ![p].descendants = <<>>]

\* descendants holds every id a traversal that returns can push (at most
\* one per stored node and round); entries past that are not kept
KeepDescendants(d) == IF Len(d) > MaxNodes + 1 THEN SubSeq(d, 1, MaxNodes + 1) ELSE d

\* one iteration of the while loop of findDescendants (one find)
DelBfs(p) ==
  /\ procs[p].pc = "bfs"
  /\ procs[p].queue # <<>>
  /\ UNCHANGED <<nodes, horizons, last, ops, agents, teams, lockData, now>>
  /\ LET st == BfsStep(nodes, procs[p].horizonId,
                       [queue |-> procs[p].queue,
                        descendants |-> procs[p].descendants])
     IN procs' = [procs EXCEPT ![p].queue = st.queue,
                               ![p].descendants = KeepDescendants(st.descendants),
                               ![p].turn = 1 - @]

\* a cascade that deactivates the deleted node alone
DelDeactivateTargetOnly(p) ==
  /\ procs[p].pc = "bfs"
  /\ procs[p].queue = <<>>
  /\ nodes' = Deactivate(nodes, {procs[p].target})
  /\ procs' = [procs EXCEPT ![p].pc = "clearChildren"]
  /\ UNCHANGED <<horizons, last, ops, agents, teams, lockData, now>>

\* the loop has ended: updateMany({_id: {$in: nodeIds}}, {isActive: false})
DelDeactivate(p) ==
  /\ procs[p].pc = "bfs"
  /\ procs[p].queue = <<>>
  /\ nodes' = Deactivate(nodes, {procs[p].target} \cup Range(procs[p].descendants))
  /\ procs' = [procs EXCEPT ![p].pc = "clearChildren"]
  /\ UNCHANGED <<horizons, last, ops, agents, teams, lockData, now>>

DelClearChildren(p) ==
  /\ procs[p].pc = "clearChildren"
  /\ nodes' = ClearChildrenOf(nodes, procs[p].horizonId, procs[p].target)
  /\ procs' = [procs EXCEPT ![p].pc = "pullParent"]
  /\ UNCHANGED <<horizons, last, ops, agents, teams, lockData, now>>

DelPullParent(p) ==
  /\ procs[p].pc = "pullParent"
  /\ LET par == procs[p].parentId
     IN nodes' = IF par # 0 /\ par \in Stored(nodes)
                 THEN [nodes EXCEPT ![par].children = Pull(@, procs[p].target)]
                 ELSE nodes
  /\ procs' = [procs EXCEPT ![p].pc = "findActive"]
  /\ UNCHANGED <<horizons, last, ops, agents, teams, lockData, now>>

\* Node.find({horizonId, isActive: true, parentId: {$ne: null}}): the
\* documents as they are now, parentId included
DelFindActive(p) ==
  /\ procs[p].pc = "findActive"
  /\ LET list == SetToSeq(ActiveWithParent(nodes, procs[p].horizonId))
     IN procs' = [procs EXCEPT
                    ![p].pc = "cleanupCheck",
                    ![p].todo = [i \in 1..Len(list) |->
                                   [id |-> list[i], parentId |-> nodes[list[i]].parentId]]]
  /\ UNCHANGED <<nodes, horizons, last, ops, agents, teams, lockData, now>>

\* findOne({_id: activeNode.parentId, isActive: true}) for the next document
DelCleanupCheck(p) ==
  /\ procs[p].pc = "cleanupCheck"
  /\ procs[p].todo # <<>>
  /\ LET par == Head(procs[p].todo).parentId
     IN procs' = IF par \in Stored(nodes) /\ nodes[par].isActive
                 THEN [procs EXCEPT ![p].todo = Tail(@)]
                 ELSE [procs EXCEPT ![p].pc = "cleanupWrite"]
  /\ UNCHANGED <<nodes, horizons, last, ops, agents, teams, lockData, now>>

\* findByIdAndUpdate(activeNode._id, {parentId: null, depth: 0})
DelCleanupWrite(p) ==
  /\ procs[p].pc = "cleanupWrite"
  /\ nodes' = [nodes EXCEPT ![Head(procs[p].todo).id].parentId = 0]
  /\ procs' = [procs EXCEPT ![p].pc = "cleanupCheck", ![p].todo = Tail(@)]
  /\ UNCHANGED <<horizons, last, ops, agents, teams, lockData, now>>

\* the loop has ended: Node.countDocuments({horizonId, isActive: true})
DelCount(p) ==
  /\ procs[p].pc = "cleanupCheck"
  /\ procs[p].todo = <<>>
  /\ procs' = [procs EXCEPT
                 ![p].pc = "saveHorizon",
                 ![p].count = Cardinality(ActiveIn(nodes, procs[p].horizonId))]
  /\ UNCHANGED <<nodes, horizons, last, ops, agents, teams, lockData, now>>

\* horizon.save() and the response
DelSaveHorizon(p) ==
  /\ procs[p].pc = "saveHorizon"
  /\ LET h == procs[p].horizonId
     IN horizons' = [horizons EXCEPT ![h] =
                       HorizonPreSave([@ EXCEPT !.stats.nodeCount = procs[p].count])]
  /\ Finish(p, 200)
  /\ UNCHANGED <<nodes, last, ops, agents, teams, lockData, now>>

DelStep(p) ==
  \/ DelFindNode(p) \/ DelFindHorizon(p) \/ DelBfs(p) \/ DelDeactivate(p)
  \/ DelClearChildren(p) \/ DelPullParent(p) \/ DelFindActive(p)
  \/ DelCleanupCheck(p) \/ DelCleanupWrite(p) \/ DelCount(p) \/ DelSaveHorizon(p)

\* a request arrives
Arrive(p, id) ==
  [IdleProc EXCEPT !.pc = "findNode", !.user = EditorOf(id), !.target = id,
                   !.before = Range(FindDescendants(nodes, id, nodes[id].horizonId).descendants)]

\* ------------------------------------------------------------- SpecConc
\* A workspace is built by POST /nodes; then two DELETE requests arrive
\* and their store reads and writes interleave freely. Request 1 is for a
\* node, request 2 for a node of its subtree.
StartDeletes(a, b) ==
  /\ AllIdle
  /\ IsLive(a) /\ IsLive(b)
  /\ b \in Range(FindDescendants(nodes, a, nodes[a].horizonId).descendants)
  /\ procs' = [p \in Procs |-> IF p = 1 THEN Arrive(1, a) ELSE Arrive(2, b)]
  /\ UNCHANGED <<nodes, horizons, last, ops, agents, teams, lockData, now>>

NextConc ==
  \/ \E h \in HorizonIds, p \in ParentRefs :
        AllIdle /\ CreateNode(horizons[h].userId, h, "agentNode", p, <<>>)
  \/ \E a \in NodeIds, b \in NodeIds : StartDeletes(a, b)
  \/ \E p \in Procs : DelStep(p)

SpecConc == Init /\ [][NextConc]_vars

\* ------------------------------------------------------------- SpecTerm
\* Nodes are created and re-parented (PUT /nodes/:id accepts any parentId,
\* the node's own id included); then one DELETE request runs.  The server
\* keeps running a request it has accepted: every await resumes.
StartDelete(id) ==
  /\ AllIdle
  /\ IsLive(id)
  /\ procs' = [procs EXCEPT ![1] = Arrive(1, id)]
  /\ UNCHANGED <<nodes, horizons, last, ops, agents, teams, lockData, now>>

NextTerm ==
  \/ \E h \in HorizonIds, p \in ParentRefs :
        AllIdle /\ CreateNode(horizons[h].userId, h, "agentNode", p, <<>>)
  \/ \E id \in Stored(nodes), p \in ParentRefs :
        AllIdle /\ UpdateNode(EditorOf(id), id, "keep", p)
  \/ \E id \in NodeIds : StartDelete(id)
  \/ DelStep(1)

SpecTerm == Init /\ [][NextTerm]_vars /\ WF_vars(DelStep(1))

\* ------------------------------------------------------------ SpecEdges
\* Nodes are created with inputNodeIds and the workspace is read.  The
\* lists have up to two entries, in non-decreasing order (the order of the
\* entries only orders the edges), over the stored ids.
InputLists ==
  LET S == Stored(nodes)
  IN {<<>>} \cup {<<a>> : a \in S}
            \cup {<<pr[1], pr[2]>> : pr \in {q \in S \X S : q[1] <= q[2]}}

NextEdges ==
  \/ \E t \in NodeTypes, p \in {0} \cup Stored(nodes), inp \in InputLists :
        CreateNode(1, 1, t, p, inp)
  \/ GetHorizon(1, 1)

SpecEdges == Init /\ [][NextEdges]_vars

\* ------------------------------------------------------------- SpecSync
\* Workspace 1 and its two editors: each creates nodes, and the owner
\* submits the canvas with PUT /horizons/:id (either revision).
NextSync ==
  \/ \E u \in Users, t \in NodeTypes : CreateNode(u, 1, t, 0, <<>>)
  \/ \E echo \in ClientLists(1), subT \in {"keep"} \cup NodeTypes,
        newT \in {"none", "agentNode"} :
        PutHorizon(horizons[1].userId, 1, TRUE, echo, subT, newT)
  \/ \E echo \in ClientLists(1), subT \in {"keep"} \cup NodeTypes,
        newT \in {"none", "agentNode"} :
        PutHorizonKeeping(horizons[1].userId, 1, TRUE, echo, subT, newT)

SpecSync == Init /\ [][NextSync]_vars

\* ---------------------------------------------------------- SpecOutputs
\* Agent nodes and their outputs: nodes are created, agents run, nodes are
\* deleted, and any user asks for any node to be re-activated.
NextOutputs ==
  \/ \E h \in HorizonIds, t \in NodeTypes, p \in {0} \cup Stored(nodes) :
        CreateNode(horizons[h].userId, h, t, p, <<>>)
  \/ \E a \in Stored(nodes) : AgentRun(EditorOf(a), nodes[a].horizonId, a)
  \/ \E id \in Stored(nodes) : DeleteNode(EditorOf(id), id)
  \/ \E u \in Users, id \in NodeIds : ReactivateOutput(u, id)

SpecOutputs == Init /\ [][NextOutputs]_vars

\* ============================================================ /api/agents
\* String.prototype.trim, and the schema's trim: true
Trim(name) == IF name = " Beta " THEN "Beta" ELSE name

FreshAgentIds == {a \in AgentIds : ~agents[a].exists}

\* Agent.create({userId, name, isActive: true, isPublic}): a document
\* written straight to the collection, as the route tests do
SeedAgent(u, name, pub) ==
  /\ ops < MaxOps
  /\ ops' = ops + 1
  /\ FreshAgentIds # {}
  /\ LET id == CHOOSE a \in FreshAgentIds : \A b \in FreshAgentIds : a <= b
     IN /\ agents' = [agents EXCEPT ![id] =
                        [exists |-> TRUE, userId |-> u, name |-> Trim(name),
                         isActive |-> TRUE, isPublic |-> pub, teamId |-> 0]]
        /\ last' = [Response("seedAgent", 201, 0, id) EXCEPT !.by = u]
  /\ UNCHANGED <<nodes, horizons, procs, teams, lockData, now>>

\* a filter that lets any user's request match a public agent
FindAgentOrPublic(store, id, u, active) ==
  /\ id \in AgentIds /\ store[id].exists
  /\ (store[id].userId = u \/ store[id].isPublic)
  /\ store[id].isActive = active

\* a filter without the isActive field
FindAgentAnyState(store, id, u, active) ==
  /\ id \in AgentIds /\ store[id].exists
  /\ store[id].userId = u

\* Agent.findOne({_id, userId, isActive}) finds a document
FindAgent(store, id, u, active) ==
  /\ id \in AgentIds /\ store[id].exists
  /\ store[id].userId = u
  /\ store[id].isActive = active

\* the three handlers: find the caller's agent in the given state, or 404;
\* change it, save, 200
AgentRequest(op, u, id, active, changed) ==
  /\ ops < MaxOps
  /\ ops' = ops + 1
  /\ UNCHANGED <<nodes, horizons, procs, teams, lockData, now>>
  /\ IF ~FindAgent(agents, id, u, active)
     THEN /\ last' = [Response(op, 404, 0, id) EXCEPT !.by = u]
          /\ UNCHANGED agents
     ELSE /\ agents' = [agents EXCEPT ![id] = changed]
          /\ last' = [Response(op, 200, 0, id) EXCEPT !.by = u]

\* PUT /api/agents/:id with a name in the body
PutAgent(u, id, name) ==
  AgentRequest("putAgent", u, id, TRUE,
               IF id \in AgentIds THEN [agents[id] EXCEPT !.name = Trim(name)]
               ELSE NoAgent)

\* DELETE /api/agents/:id
DeleteAgent(u, id) ==
  AgentRequest("deleteAgent", u, id, TRUE,
               IF id \in AgentIds THEN [agents[id] EXCEPT !.isActive = FALSE]
               ELSE NoAgent)

\* POST /api/agents/:id/restore
RestoreAgent(u, id) ==
  AgentRequest("restoreAgent", u, id, FALSE,
               IF id \in AgentIds THEN [agents[id] EXCEPT !.isActive = TRUE]
               ELSE NoAgent)

\* ------------------------------------------------------------ SpecAgents
NextAgents ==
  \/ \E u \in Users, name \in Names, pub \in BOOLEAN : SeedAgent(u, name, pub)
  \/ \E u \in Users, id \in AgentIds \cup {NoAgentId}, name \in Names :
        PutAgent(u, id, name)
  \/ \E u \in Users, id \in AgentIds \cup {NoAgentId} : DeleteAgent(u, id)
  \/ \E u \in Users, id \in AgentIds \cup {NoAgentId} : RestoreAgent(u, id)

SpecAgents == Init /\ [][NextAgents]_vars

\* -------------------------------------------------------------- SpecDesc
\* findDescendants as a function of the store: the store is any set of
\* node documents that creates, re-parentings and deletes can leave (every
\* node in one of the two workspaces, active or not, with any stored node or
\* none as parent, and children lists as POST /nodes fills them), and the
\* function is called for any node id and workspace 1.
StoreOf(hs, ps, as) ==
  [n \in NodeIds |->
     [NewNode(hs[n], hs[n], "agentNode", ps[n], <<>>) EXCEPT
        !.children = SetToSeq({m \in NodeIds : ps[m] = n}),
        !.isActive = as[n]]]

InitDesc ==
  /\ \E hs \in [NodeIds -> HorizonIds], ps \in [NodeIds -> {0} \cup NodeIds],
        as \in [NodeIds -> BOOLEAN] :
        nodes = StoreOf(hs, ps, as)
  /\ horizons = InitHorizons
  /\ last = NoResponse
  /\ ops = 0
  /\ procs = [p \in Procs |-> IdleProc]
  /\ agents = InitAgents
  /\ teams = InitTeams
  /\ lockData = InitLockData
  /\ now = 0

CallFindDescendants(nodeId, h) ==
  /\ LET run == FindDescendants(nodes, nodeId, h)
     IN last' = [Response("findDescendants", IF run.done THEN 200 ELSE 0, h, nodeId)
                   EXCEPT !.desc = Range(run.descendants),
                          !.count = Len(run.descendants)]
  /\ UNCHANGED <<nodes, horizons, ops, procs, agents, teams, lockData, now>>

NextDesc == \E n \in NodeIds : CallFindDescendants(n, 1)

SpecDesc == InitDesc /\ [][NextDesc]_vars

\* ------------------------------------------------------------- SpecBuild
\* buildEdgesFromNodes as a function of the list it is given: the documents
\* are any forest POST /nodes can leave (each node of either type, with no
\* parent or an earlier node as parent, children lists as $addToSet fills
\* them, node 2 carrying any inputNodeIds of up to two ids), and the
\* function is called with any sub-list of the documents.
ForestOf(ts, ps, inp) ==
  [n \in NodeIds |->
     [NewNode(1, 1, ts[n], ps[n], IF n = 2 THEN inp ELSE <<>>) EXCEPT
        !.children = SetToSeq({m \in NodeIds : ps[m] = n})]]

InitBuild ==
  /\ \E ts \in [NodeIds -> NodeTypes],
        ps \in {f \in [NodeIds -> {0} \cup NodeIds] : \A n \in NodeIds : f[n] < n},
        inp \in {<<>>} \cup {<<a>> : a \in NodeIds} \cup {<<a, b>> : a, b \in NodeIds} :
        nodes = ForestOf(ts, ps, inp)
  /\ horizons = InitHorizons
  /\ last = NoResponse
  /\ ops = 0
  /\ procs = [p \in Procs |-> IdleProc]
  /\ agents = InitAgents
  /\ teams = InitTeams
  /\ lockData = InitLockData
  /\ now = 0

CallBuildEdges(S) ==
  /\ LET list == SetToSeq(S)
     IN last' = [Response("buildEdges", 200, 1, 0) EXCEPT
                   !.view = [i \in 1..Len(list) |->
                               [id |-> list[i], parentId |-> nodes[list[i]].parentId]],
                   !.edges = BuildEdgesFromNodes(nodes, list)]
  /\ UNCHANGED <<nodes, horizons, ops, procs, agents, teams, lockData, now>>

NextBuild == \E S \in SUBSET NodeIds : CallBuildEdges(S)

SpecBuild == InitBuild /\ [][NextBuild]_vars

\* -------------------------------------------------------------- SpecRuns
\* The output save of an agent run, one store call at a time.
\* target: agentNodeId of the body; saved: the id of the output node this
\* run has inserted; todo: the old output nodes its find returned;
\* turn = 1: another save of the agent node has landed since this run
\* loaded it.

\* outputNode.save()
RunSave(p) ==
  /\ procs[p].pc = "runSave"
  /\ FreshIds(nodes) # {}
  /\ LET id == NextId(nodes)
     IN /\ nodes' = [nodes EXCEPT ![id] = NewNode(procs[p].user, procs[p].horizonId,
                                                  "outputNode", procs[p].target, <<>>)]
        /\ procs' = [procs EXCEPT ![p].pc = "runFind", ![p].saved = id]
  /\ UNCHANGED <<horizons, last, ops, agents, teams, lockData, now>>

\* Node.find({horizonId, parentId, type: "outputNode", isActive: true}),
\* less the node just saved
RunFind(p) ==
  /\ procs[p].pc = "runFind"
  /\ LET old == {n \in ActiveIn(nodes, procs[p].horizonId) :
                   /\ nodes[n].parentId = procs[p].target
                   /\ nodes[n].type = "outputNode"
                   /\ n # procs[p].saved}
     IN procs' = [procs EXCEPT ![p].pc = IF old = {} THEN "runLoad" ELSE "runRetire",
                               ![p].todo = SetToSeq(old)]
  /\ UNCHANGED <<nodes, horizons, last, ops, agents, teams, lockData, now>>

\* Node.updateMany({_id: {$in: oldOutputNodeIds}}, {isActive: false})
RunRetire(p) ==
  /\ procs[p].pc = "runRetire"
  /\ nodes' = Deactivate(nodes, Range(procs[p].todo))
  /\ procs' = [procs EXCEPT ![p].pc = "runLoad"]
  /\ UNCHANGED <<horizons, last, ops, agents, teams, lockData, now>>

\* Node.findById(agentNodeId); a null document makes the next line throw,
\* and the catch block answers without the saved node
RunLoad(p) ==
  /\ procs[p].pc = "runLoad"
  /\ IF procs[p].target \in Stored(nodes)
     THEN procs' = [procs EXCEPT ![p].pc = "runWrite", ![p].turn = 0]
     ELSE Finish(p, 200)
  /\ UNCHANGED <<nodes, horizons, last, ops, agents, teams, lockData, now>>

\* agentNode.save() with children = [saved]
RunWrite(p) ==
  /\ procs[p].pc = "runWrite"
  /\ nodes' = [nodes EXCEPT ![procs[p].target].children = <<procs[p].saved>>]
  /\ procs' = [q \in Procs |->
                 IF q = p THEN [procs[p] EXCEPT !.pc = "done", !.status = 200]
                 ELSE IF procs[q].pc = "runWrite" /\ procs[q].target = procs[p].target
                 THEN [procs[q] EXCEPT !.turn = 1]
                 ELSE procs[q]]
  /\ UNCHANGED <<horizons, last, ops, agents, teams, lockData, now>>

\* agentNode.save() of a document another save has overtaken: the version
\* check of the document store may refuse it; the catch block answers
RunWriteRefused(p) ==
  /\ procs[p].pc = "runWrite"
  /\ procs[p].turn = 1
  /\ Finish(p, 200)
  /\ UNCHANGED <<nodes, horizons, last, ops, agents, teams, lockData, now>>

RunStep(p) ==
  \/ RunSave(p) \/ RunFind(p) \/ RunRetire(p) \/ RunLoad(p)
  \/ RunWrite(p) \/ RunWriteRefused(p)

\* two runs of the agent node a of workspace h answer at about the same time
StartRuns(a) ==
  /\ AllIdle
  /\ IsLive(a)
  /\ procs' = [p \in Procs |->
                 [IdleProc EXCEPT !.pc = "runSave", !.user = EditorOf(a), !.target = a,
                                  !.horizonId = nodes[a].horizonId]]
  /\ UNCHANGED <<nodes, horizons, last, ops, agents, teams, lockData, now>>

NextRuns ==
  \/ \E h \in HorizonIds, p \in ParentRefs :
        AllIdle /\ CreateNode(horizons[h].userId, h, "agentNode", p, <<>>)
  \/ \E a \in NodeIds : StartRuns(a)
  \/ \E p \in Procs : RunStep(p)

SpecRuns == Init /\ [][NextRuns]_vars

\* ------------------------------------------------------------ SpecAccess
\* The owners build and prune their workspaces; user u sends every kind of
\* write request, and the read, to a workspace it has no editor rights on
\* (user 1 is a viewer of workspace 2).
NonEditorRequest(u) ==
  \E h \in {w \in HorizonIds : ~HasAccess(horizons[w], u, "editor")} :
    \/ \E t \in NodeTypes, p \in ParentRefs : CreateNode(u, h, t, p, <<>>)
    \/ \E id \in InHorizon(h), p \in ParentRefs : UpdateNode(u, id, "keep", p)
    \/ \E id \in InHorizon(h) : DeleteNode(u, id)
    \/ \E id \in InHorizon(h) : ReactivateOutput(u, id)
    \/ \E a \in ParentRefs : AgentRun(u, h, a)
    \/ \E echo \in ClientLists(h) : PutHorizon(u, h, TRUE, echo, "keep", "none")
    \/ DeleteHorizon(u, h)
    \/ GetHorizon(u, h)

NextAccess ==
  \/ \E h \in HorizonIds, t \in NodeTypes, p \in ParentRefs :
        CreateNode(horizons[h].userId, h, t, p, <<>>)
  \/ \E id \in Stored(nodes) : DeleteNode(EditorOf(id), id)
  \/ NonEditorRequest(1)

SpecAccess == Init /\ [][NextAccess]_vars

\* -------------------------------------------------------------- SpecRace
\* POST /nodes, one store call at a time.  horizonId, parentId: the body;
\* saved: the id of the node this request has inserted.

\* Horizon.findOne({_id, isActive: true}) and the access check
CrFindHorizon(p) ==
  /\ procs[p].pc = "crFindHorizon"
  /\ UNCHANGED <<nodes, horizons, last, ops, agents, teams, lockData, now>>
  /\ LET h == procs[p].horizonId
     IN IF h \notin HorizonIds \/ ~horizons[h].isActive THEN Finish(p, 404)
        ELSE IF ~HasAccess(horizons[h], procs[p].user, "editor") THEN Finish(p, 403)
        ELSE procs' = [procs EXCEPT ![p].pc = "crSave"]

\* node.save()
CrSave(p) ==
  /\ procs[p].pc = "crSave"
  /\ FreshIds(nodes) # {}
  /\ LET id == NextId(nodes)
     IN /\ nodes' = [nodes EXCEPT ![id] = NewNode(procs[p].user, procs[p].horizonId,
                                                  "agentNode", procs[p].parentId, <<>>)]
        /\ procs' = [procs EXCEPT ![p].saved = id,
                                  ![p].pc = IF procs[p].parentId # 0 THEN "crLink"
                                            ELSE "crCount"]
  /\ UNCHANGED <<horizons, last, ops, agents, teams, lockData, now>>

\* Node.findByIdAndUpdate(parentId, {$addToSet: {children}})
CrLink(p) ==
  /\ procs[p].pc = "crLink"
  /\ LET par == procs[p].parentId
     IN nodes' = IF par \in Stored(nodes)
                 THEN [nodes EXCEPT ![par].children = AddToSet(@, procs[p].saved)]
                 ELSE nodes
  /\ procs' = [procs EXCEPT ![p].pc = "crCount"]
  /\ UNCHANGED <<horizons, last, ops, agents, teams, lockData, now>>

\* Node.countDocuments({horizonId, isActive: true})
CrCount(p) ==
  /\ procs[p].pc = "crCount"
  /\ procs' = [procs EXCEPT
                 ![p].pc = "crSaveHorizon",
                 ![p].count = Cardinality(ActiveIn(nodes, procs[p].horizonId))]
  /\ UNCHANGED <<nodes, horizons, last, ops, agents, teams, lockData, now>>

\* horizon.save() and the 201
CrSaveHorizon(p) ==
  /\ procs[p].pc = "crSaveHorizon"
  /\ LET h == procs[p].horizonId
     IN horizons' = [horizons EXCEPT ![h] =
                       HorizonPreSave([@ EXCEPT !.stats.nodeCount = procs[p].count])]
  /\ Finish(p, 201)
  /\ UNCHANGED <<nodes, last, ops, agents, teams, lockData, now>>

CrStep(p) ==
  \/ CrFindHorizon(p) \/ CrSave(p) \/ CrLink(p) \/ CrCount(p) \/ CrSaveHorizon(p)

\* DELETE /nodes/P (request 1) and POST /nodes {parentId: P} (request 2)
\* arrive together
StartRace(P) ==
  /\ AllIdle
  /\ IsLive(P)
  /\ procs' = [p \in Procs |->
                 IF p = 1 THEN Arrive(1, P)
                 ELSE [IdleProc EXCEPT !.pc = "crFindHorizon", !.user = EditorOf(P),
                                       !.horizonId = nodes[P].horizonId,
                                       !.parentId = P]]
  /\ UNCHANGED <<nodes, horizons, last, ops, agents, teams, lockData, now>>

NextRace ==
  \/ \E h \in HorizonIds, p \in ParentRefs :
        AllIdle /\ CreateNode(horizons[h].userId, h, "agentNode", p, <<>>)
  \/ \E P \in NodeIds : StartRace(P)
  \/ DelStep(1)
  \/ CrStep(2)

SpecRace == Init /\ [][NextRace]_vars

\* ------------------------------------------------------------- SpecTeams
FreshTeamIds == {t \in TeamIds : ~teams[t].exists}

\* POST /api/teams: checkHorizonAccess (the caller's own active workspace,
\* or 404), then the team is saved
CreateTeam(u, h) ==
  /\ UNCHANGED <<nodes, horizons, ops, procs, agents, lockData, now>>
  /\ IF h \notin HorizonIds \/ horizons[h].userId # u \/ ~horizons[h].isActive
     THEN /\ last' = [Response("createTeam", 404, 0, 0) EXCEPT !.by = u]
          /\ UNCHANGED teams
     ELSE /\ FreshTeamIds # {}
          /\ LET id == CHOOSE t \in FreshTeamIds : \A s \in FreshTeamIds : t <= s
             IN /\ teams' = [teams EXCEPT ![id] =
                               [exists |-> TRUE, userId |-> u, horizonId |-> h,
                                isActive |-> TRUE]]
                /\ last' = [Response("createTeam", 201, h, id) EXCEPT !.by = u]

\* POST /api/agents with a name and a teamId (0: none) in the body; the
\* team is not looked up
CreateAgent(u, name, teamId) ==
  /\ ops < MaxOps
  /\ ops' = ops + 1
  /\ UNCHANGED <<nodes, horizons, procs, teams, lockData, now>>
  /\ IF Trim(name) = ""
     THEN /\ last' = [Response("createAgent", 400, 0, 0) EXCEPT !.by = u]
          /\ UNCHANGED agents
     ELSE /\ FreshAgentIds # {}
          /\ LET id == CHOOSE a \in FreshAgentIds : \A b \in FreshAgentIds : a <= b
             IN /\ agents' = [agents EXCEPT ![id] =
                                [exists |-> TRUE, userId |-> u, name |-> Trim(name),
                                 isActive |-> TRUE, isPublic |-> FALSE,
                                 teamId |-> teamId]]
                /\ last' = [Response("createAgent", 201, 0, id) EXCEPT !.by = u]

AgentsOfTeam(store, t) == {a \in AgentIds : store[a].exists /\ store[a].teamId = t}

\* DELETE /api/teams/:id and POST /api/teams/:id/restore: find the caller's
\* team in the given state, or 404; flip it, save, and
\* Agent.updateMany({teamId: id}, {isActive}).  before: the agents of the
\* team that were active when the request arrived
TeamRequest(op, u, t, active) ==
  /\ UNCHANGED <<nodes, horizons, ops, procs, lockData, now>>
  /\ IF t \notin TeamIds \/ ~teams[t].exists \/ teams[t].userId # u
        \/ teams[t].isActive # active
     THEN /\ last' = [Response(op, 404, 0, t) EXCEPT !.by = u]
          /\ UNCHANGED <<teams, agents>>
     ELSE /\ teams' = [teams EXCEPT ![t].isActive = ~active]
          /\ agents' = [a \in AgentIds |->
                          IF a \in AgentsOfTeam(agents, t)
                          THEN [agents[a] EXCEPT !.isActive = ~active]
                          ELSE agents[a]]
          /\ last' = [Response(op, 200, 0, t) EXCEPT
                        !.by = u,
                        !.before = {a \in AgentsOfTeam(agents, t) : agents[a].isActive}]

DeleteTeam(u, t) == TeamRequest("deleteTeam", u, t, TRUE)

RestoreTeam(u, t) == TeamRequest("restoreTeam", u, t, FALSE)

NextTeams ==
  \/ \E u \in Users, h \in HorizonIds : CreateTeam(u, h)
  \/ \E u \in Users, t \in {0} \cup TeamIds : CreateAgent(u, "Alpha", t)
  \/ \E a \in AgentIds : DeleteAgent(IF agents[a].exists THEN agents[a].userId ELSE 1, a)
  \/ \E u \in Users, t \in TeamIds : DeleteTeam(u, t)
  \/ \E u \in Users, t \in TeamIds : RestoreTeam(u, t)

SpecTeams == Init /\ [][NextTeams]_vars

\* ------------------------------------------------------------- SpecLogin
\* parsed.data.email.trim().toLowerCase()
EmailLower(raw) == IF raw = " Ann@X.io" THEN "ann@x.io" ELSE raw

\* User.findOne({email}): the passwordHash of the account, "" for an
\* account without one, or no account
HasUser(email) == email \in {"ann@x.io", "bob@x.io"}
PasswordHash(email) == IF email = "ann@x.io" THEN "right" ELSE ""

\* a check that takes a lock to last for ever
IsLockedForEver(ld, email, t) == ld[email].lockedUntil # 0

\* isLocked(email): a lock is set and has not run out
IsLocked(ld, email, t) ==
  ld[email].lockedUntil # 0 /\ ld[email].lockedUntil > t

\* ... and an entry whose lock has run out is deleted on the way
ExpireOnCheck(ld, email, t) ==
  IF ld[email].lockedUntil # 0 /\ ld[email].lockedUntil <= t
  THEN [ld EXCEPT ![email] = NoLock]
  ELSE ld

\* a counter that locks one failure late
OnFailLate(ld, email, t) ==
  LET fails == ld[email].fails + 1
  IN [ld EXCEPT ![email] =
        [fails |-> fails,
         lockedUntil |-> IF fails > MaxFails THEN t + LockTicks
                         ELSE ld[email].lockedUntil]]

\* onFail(email)
OnFail(ld, email, t) ==
  LET fails == ld[email].fails + 1
  IN [ld EXCEPT ![email] =
        [fails |-> fails,
         lockedUntil |-> IF fails >= MaxFails THEN t + LockTicks
                         ELSE ld[email].lockedUntil]]

\* onSuccess(email)
OnSuccess(ld, email) == [ld EXCEPT ![email] = NoLock]

\* POST /api/auth/login from the normalisation of the email on.
\* compared: bcrypt.compare has run (on the account's hash or the dummy)
Login(raw, password) ==
  /\ UNCHANGED <<nodes, horizons, ops, procs, agents, teams, now>>
  /\ LET email == EmailLower(raw)
         checked == ExpireOnCheck(lockData, email, now)
         answer(status, code) ==
           [Response("login", status, 0, 0) EXCEPT
              !.email = email, !.code = code, !.compared = (status # 429)]
     IN IF IsLocked(lockData, email, now)
        THEN /\ last' = answer(429, "ACCOUNT_LOCKED")
             /\ UNCHANGED lockData
        ELSE IF ~HasUser(email) \/ PasswordHash(email) = ""
                \/ password # PasswordHash(email)
        THEN /\ lockData' = OnFail(checked, email, now)
             /\ last' = answer(401, "INVALID_CREDENTIALS")
        ELSE /\ lockData' = OnSuccess(checked, email)
             /\ last' = answer(200, "")

\* the five-minute timer: cleanupExpiredLocks()
CleanupExpiredLocks ==
  /\ \E e \in Emails : lockData[e].lockedUntil # 0 /\ lockData[e].lockedUntil <= now
  /\ lockData' = [e \in Emails |->
                    IF lockData[e].lockedUntil # 0 /\ lockData[e].lockedUntil <= now
                    THEN NoLock ELSE lockData[e]]
  /\ UNCHANGED <<nodes, horizons, last, ops, procs, agents, teams, now>>

\* five minutes pass
Tick ==
  /\ now < MaxTime
  /\ now' = now + 1
  /\ UNCHANGED <<nodes, horizons, last, ops, procs, agents, teams, lockData>>

NextLogin ==
  \/ \E raw \in RawEmails, password \in Passwords : Login(raw, password)
  \/ CleanupExpiredLocks
  \/ Tick

SpecLogin == Init /\ [][NextLogin]_vars

\* =============================================================== claims
IsActive(store, n) == n \in Stored(store) /\ store[n].isActive

\* active nodes of h whose parentId names no active node of h
Orphans(store, h) ==
  {n \in ActiveIn(store, h) :
     /\ store[n].parentId # 0
     /\ ~(/\ IsActive(store, store[n].parentId)
          /\ store[store[n].parentId].horizonId = h)}

Served(op) == last.op = op /\ last.status \in {200, 201}

\* C1: after deleteNode(N) has answered 200, N is inactive and so is every
\* node findDescendants(N, W) returned immediately before the delete.
C1_CascadeComplete ==
  Served("deleteNode") =>
    /\ ~nodes[last.id].isActive
    /\ \A d \in last.desc : ~nodes[d].isActive

\* a delete that reached a descendant of a descendant
C1_Witness ==
  /\ Served("deleteNode")
  /\ \E d \in last.desc : nodes[d].parentId \in last.desc

\* C2: once GET /horizons/:id has answered, every active node of the
\* workspace with a non-null parentId references a stored, active node, and
\* the response reports for every node the parentId that is persisted.
C2_NoDanglingAfterView ==
  (Served("getHorizon") \/ Served("getHorizonAsStored")) =>
    /\ \A m \in ActiveIn(nodes, last.h) :
         nodes[m].parentId # 0 => IsActive(nodes, nodes[m].parentId)
    /\ \A i \in 1..Len(last.view) :
         /\ last.view[i].parentId = nodes[last.view[i].id].parentId
         /\ last.view[i].parentId # 0 => IsActive(nodes, last.view[i].parentId)

\* C4: for an agent node with output nodes created in sequence through
\* createNode, buildEdges over the active nodes of the workspace emits an
\* edge from the agent to the most recently created output and to no other.
OutputsOf(store, h, a) ==
  {o \in ActiveIn(store, h) : store[o].type = "outputNode" /\ store[o].parentId = a}

MaxOf(S) == CHOOSE x \in S : \A y \in S : y <= x

EdgeTargets(edges, src) ==
  {edges[k].target : k \in {j \in 1..Len(edges) : edges[j].source = src}}

C4_EdgeToNewestOutput ==
  \A h \in HorizonIds : \A a \in ActiveIn(nodes, h) :
    (nodes[a].type = "agentNode" /\ OutputsOf(nodes, h, a) # {}) =>
      EdgeTargets(BuildEdgesFromNodes(nodes, SetToSeq(ActiveIn(nodes, h))), a)
          \cap OutputsOf(nodes, h, a)
        = {MaxOf(OutputsOf(nodes, h, a))}

\* C6: after a repair pass (GET /horizons/:id with the cleanup), the
\* children list of every active node P of the workspace is exactly the set
\* of ids of the active nodes whose parentId is P.
C6_ChildrenMirrorParents ==
  Served("getHorizon") =>
    \A p \in ActiveIn(nodes, last.h) :
      Range(nodes[p].children) =
        {n \in Stored(nodes) : nodes[n].isActive /\ nodes[n].parentId = p}

\* C7: createNode answers 201 and stores a node only for an active
\* workspace and, when a parentId is declared, for a parent that is a
\* stored, active node.
C7_CreateChecksParent ==
  Served("createNode") =>
    /\ horizons[last.h].isActive
    /\ last.view[1].parentId # 0 => IsActive(nodes, last.view[1].parentId)

\* C8: after a workspace save, node create or node delete has answered, the
\* persisted stats.nodeCount is the number of active nodes of the workspace,
\* and after a workspace save stats.edgeCount is the number of active nodes
\* with a non-null parentId.
C8_StatsMatchNodes ==
  /\ (\/ Served("createNode") \/ Served("deleteNode")
      \/ Served("putHorizon") \/ Served("putHorizonKeeping")) =>
        horizons[last.h].stats.nodeCount = Cardinality(ActiveIn(nodes, last.h))
  /\ (Served("putHorizon") \/ Served("putHorizonKeeping")) =>
        horizons[last.h].stats.edgeCount =
          Cardinality({n \in ActiveIn(nodes, last.h) : nodes[n].parentId # 0})

\* C9: the cleanup of GET /horizons/:id writes no node when the request
\* served just before was the same read of the same workspace, and none
\* when the workspace has no orphaned parentId.
C9_RepairIdempotent ==
  [][(last'.op = "getHorizon" /\ last'.status = 200 /\ ops' = ops + 1) =>
       ((\/ (Served("getHorizon") /\ last.h = last'.h)
         \/ Orphans(nodes, last'.h) = {})
        => (nodes' = nodes /\ last'.writes = 0))]_vars

\* a read that wrote nothing right after a read that repaired something
C9_Witness ==
  Served("getHorizon") /\ last.prevWrites > 0 /\ last.writes = 0

\* C5: two concurrent deleteNode requests, one on a node and one on an
\* ancestor of it: whatever the interleaving, once both have answered the
\* ancestor and every node that was its descendant are inactive.
Overlapping == procs[2].target \in procs[1].before

BothDone == \A p \in Procs : procs[p].pc = "done"

C5_ConcurrentDeletesConverge ==
  (BothDone /\ Overlapping) =>
    \A p \in Procs : \A n \in {procs[p].target} \cup procs[p].before :
      ~nodes[n].isActive

\* both requests answered 200 on a chain of three nodes
C5_Witness ==
  /\ BothDone /\ Overlapping
  /\ \A p \in Procs : procs[p].status = 200
  /\ \E p \in Procs : Cardinality(procs[p].before) >= 2

\* C3: findDescendants terminates on every stored node set, a parentId
\* cycle included: a DELETE request that has started the traversal leaves
\* it (and goes on to answer).
C3_FindDescendantsTerminates ==
  (procs[1].pc = "bfs") ~> (procs[1].pc # "bfs")

\* C10: buildEdges emits at most one edge per (source, target) pair, also
\* when a parentId link and an inputNodeIds entry, or a repeated id inside
\* inputNodeIds, give the same pair.
C10_OneEdgePerPair ==
  Served("getHorizon") =>
    \A i \in 1..Len(last.edges) : \A j \in 1..Len(last.edges) :
      (last.edges[i] = last.edges[j]) => i = j

\* a view in which one node names its parent in inputNodeIds too and one
\* node names the same input twice, the edges of both pairs being emitted
C10_Witness ==
  /\ Served("getHorizon")
  /\ \E n \in ActiveIn(nodes, last.h) :
        /\ nodes[n].parentId # 0
        /\ nodes[n].parentId \in Range(nodes[n].inputNodeIds)
        /\ [source |-> nodes[n].parentId, target |-> n] \in Range(last.edges)
  /\ \E m \in ActiveIn(nodes, last.h) :
        /\ Len(nodes[m].inputNodeIds) = 2
        /\ nodes[m].inputNodeIds[1] = nodes[m].inputNodeIds[2]
        /\ [source |-> nodes[m].inputNodeIds[1], target |-> m] \in Range(last.edges)

\* C11: after an agent run has stored a new output node O for agent node A,
\* O is active, every other output node with parentId A is inactive, and
\* A.children is exactly <<O>>.
C11_SingleCurrentOutput ==
  (last.op = "agentRun" /\ last.id # 0) =>
    LET O == last.id
        A == nodes[O].parentId
    IN /\ nodes[O].isActive
       /\ \A n \in Stored(nodes) \ {O} :
            (nodes[n].type = "outputNode" /\ nodes[n].parentId = A)
              => ~nodes[n].isActive
       /\ nodes[A].children = <<O>>

C13_SyncStoresSubmitted ==
  (last.op \in {"putHorizon", "putHorizonKeeping"} /\ last.status = 200) =>
    \A e \in last.sent :
      /\ nodes[e.id].exists /\ nodes[e.id].isActive
      /\ nodes[e.id].horizonId = last.h
      /\ nodes[e.id].type = e.type

\* C14: the descendant count a successful deleteNode(N) reports is the
\* number of nodes other than N the call changed from active to inactive.
C14_CountIsDeactivated ==
  [][(last'.op = "deleteNode" /\ last'.status = 200 /\ ops' = ops + 1) =>
       last'.count =
         Cardinality({n \in NodeIds \ {last'.id} :
                        nodes[n].isActive /\ ~nodes'[n].isActive})
    ]_vars

\* a delete that reported two descendants
C14_Witness ==
  /\ Served("deleteNode") /\ last.count = 2
  /\ Cardinality(last.desc) = 2

\* C15: reactivateOutput(id) succeeds only for a node of output type; on
\* success it sets that node's isActive to true and changes no field of any
\* other node; on a node of any other type it fails and changes nothing.
C15_ReactivateFrame ==
  [][\A u \in Users : \A id \in NodeIds :
       ReactivateOutput(u, id) =>
         /\ last'.status = 200 =>
              /\ nodes[id].exists /\ nodes[id].type = "outputNode"
              /\ nodes' = [nodes EXCEPT ![id].isActive = TRUE]
         /\ (nodes[id].exists /\ nodes[id].type # "outputNode") =>
              /\ last'.status # 200
              /\ nodes' = nodes
         /\ horizons' = horizons
    ]_vars

\* a retired output node has been brought back while another node exists
C15_Witness ==
  /\ Served("reactivateOutput") /\ last.writes = 1
  /\ nodes[last.id].isActive
  /\ Stored(nodes) # {last.id}

\* C16: after deleteWorkspace(W) has succeeded, W is inactive and every
\* node whose workspace is W is inactive.
C16_WorkspaceDeleteCascades ==
  Served("deleteHorizon") =>
    /\ ~horizons[last.h].isActive
    /\ \A n \in Stored(nodes) : nodes[n].horizonId = last.h => ~nodes[n].isActive

\* a workspace was deleted while it held two active nodes
C16_Witness ==
  /\ Served("deleteHorizon") /\ last.writes >= 2
  /\ ~horizons[last.h].isActive

\* C17: a DELETE or restore request of an agent's owner succeeds exactly
\* when it changes isActive (DELETE on an active agent, restore on an
\* inactive one); otherwise it answers 404 and leaves the agent unchanged.
OwnerOf(a) == IF a \in AgentIds /\ agents[a].exists THEN agents[a].userId ELSE 0

C17_DeleteRestoreToggle ==
  [][\A a \in AgentIds :
       LET u == OwnerOf(a)
       IN /\ (u # 0 /\ DeleteAgent(u, a)) =>
               IF agents[a].isActive
               THEN last'.status = 200
                    /\ agents' = [agents EXCEPT ![a].isActive = FALSE]
               ELSE last'.status = 404 /\ agents' = agents
          /\ (u # 0 /\ RestoreAgent(u, a)) =>
               IF ~agents[a].isActive
               THEN last'.status = 200
                    /\ agents' = [agents EXCEPT ![a].isActive = TRUE]
               ELSE last'.status = 404 /\ agents' = agents
    ]_vars

\* an owner has restored an agent, which a DELETE had retired
C17_Witness ==
  /\ last.op = "restoreAgent" /\ last.status = 200
  /\ last.by = OwnerOf(last.id)
  /\ agents[last.id].isActive

\* C18: an update, delete or restore request on an agent by a user who is
\* not its owner answers 404 and leaves every field of the agent
\* unchanged, whether or not the agent is public.
C18_NotOwnerNotFound ==
  [][\A a \in AgentIds : \A u \in Users : \A name \in Names :
       (/\ agents[a].exists /\ agents[a].userId # u
        /\ (PutAgent(u, a, name) \/ DeleteAgent(u, a) \/ RestoreAgent(u, a)))
       => (last'.status = 404 /\ agents' = agents)
    ]_vars

\* a request on a public agent of another user was turned down
C18_Witness ==
  /\ last.op \in {"putAgent", "deleteAgent", "restoreAgent"}
  /\ last.status = 404
  /\ last.id \in AgentIds /\ agents[last.id].exists
  /\ agents[last.id].isPublic
  /\ agents[last.id].userId # last.by

\* C19: after deleteNode(N) has completed in workspace W, every active node
\* of W with a non-null parentId references an active node of W.
C19_ParentsInWorkspaceAfterDelete ==
  Served("deleteNode") =>
    \A n \in ActiveIn(nodes, last.h) :
      nodes[n].parentId # 0 =>
        /\ nodes[n].parentId \in Stored(nodes)
        /\ nodes[nodes[n].parentId].isActive
        /\ nodes[nodes[n].parentId].horizonId = last.h

\* C20: after any sequence of createNode, updateNode and deleteNode
\* requests the parentId links contain no cycle: no node is its own parent
\* or its own ancestor.
RECURSIVE HasAncestor(_, _, _, _)
HasAncestor(store, cur, target, fuel) ==
  IF fuel = 0 \/ cur \notin Stored(store) THEN FALSE
  ELSE \/ store[cur].parentId = target
       \/ HasAncestor(store, store[cur].parentId, target, fuel - 1)

C20_NoParentCycle ==
  \A n \in Stored(nodes) : ~HasAncestor(nodes, n, n, MaxNodes)

\* C21: on a node set whose parentId links are acyclic, findDescendants(n, W)
\* returns exactly the active nodes of W reachable from n downward through
\* active nodes of W only, each id once and never n itself.
Acyclic(store) == \A n \in Stored(store) : ~HasAncestor(store, n, n, MaxNodes)

\* m is an active node of W, and so is every node on its parentId chain
\* up to, and not including, n
RECURSIVE Below(_, _, _, _, _)
Below(store, h, m, n, fuel) ==
  /\ fuel > 0
  /\ m \in ActiveIn(store, h)
  /\ \/ store[m].parentId = n
     \/ Below(store, h, store[m].parentId, n, fuel - 1)

C21_DescendantsExact ==
  (last.op = "findDescendants" /\ Acyclic(nodes)) =>
    /\ last.status = 200
    /\ last.desc = {m \in NodeIds : Below(nodes, last.h, m, last.id, MaxNodes)}
    /\ last.count = Cardinality(last.desc)
    /\ last.id \notin last.desc

\* a call on an acyclic store that returned nothing although an active node
\* of the workspace sits below an inactive child of the node
C21_Witness ==
  /\ last.op = "findDescendants" /\ Acyclic(nodes)
  /\ last.count = 0
  /\ \E m \in ActiveIn(nodes, last.h) :
        /\ nodes[m].parentId \in Stored(nodes)
        /\ nodes[nodes[m].parentId].horizonId = last.h
        /\ ~nodes[nodes[m].parentId].isActive
        /\ nodes[nodes[m].parentId].parentId = last.id

\* C22: for every input node list, buildEdges emits parentId->node for every
\* non-output node with a parentId, parent->node for an output node exactly
\* when the parent's children names that node as its current child, and
\* id->node for every id in a node's inputNodeIds (once per pair); it emits
\* no other edge.
ListIds == {last.view[i].id : i \in 1..Len(last.view)}

Edge(s, t) == [source |-> s, target |-> t]

PlainParentEdges ==
  {Edge(nodes[n].parentId, n) :
     n \in {m \in ListIds : nodes[m].parentId # 0 /\ nodes[m].type # "outputNode"}}

InputPairs(sources) ==
  {Edge(q[1], q[2]) :
     q \in {r \in sources \X ListIds : r[1] \in Range(nodes[r[2]].inputNodeIds)}}

IsCurrentChild(n) ==
  /\ nodes[n].parentId \in Stored(nodes)
  /\ Len(nodes[nodes[n].parentId].children) > 0
  /\ nodes[nodes[n].parentId].children[1] = n

C22_EdgesAsStated ==
  last.op = "buildEdges" =>
    Range(last.edges) =
      PlainParentEdges
        \cup {Edge(nodes[n].parentId, n) :
                n \in {m \in ListIds : nodes[m].type = "outputNode" /\ IsCurrentChild(m)}}
        \cup InputPairs(NodeRefs)

\* C22 as amended: the output edge also needs the parent to be an agent node
\* of the list, and an input edge needs its source to be a node of the list.
C22_EdgesAsBuilt ==
  last.op = "buildEdges" =>
    Range(last.edges) =
      PlainParentEdges
        \cup {Edge(nodes[n].parentId, n) :
                n \in {m \in ListIds : /\ nodes[m].type = "outputNode"
                                       /\ IsCurrentChild(m)
                                       /\ nodes[m].parentId \in ListIds
                                       /\ nodes[nodes[m].parentId].type = "agentNode"}}
        \cup InputPairs(ListIds)

\* a list with an output node that is the current child of a listed agent
\* node (edge), an input id that is listed (edge) and one that is not
C22_Witness ==
  /\ last.op = "buildEdges"
  /\ \E n \in ListIds :
        /\ nodes[n].type = "outputNode" /\ IsCurrentChild(n)
        /\ Edge(nodes[n].parentId, n) \in Range(last.edges)
  /\ \E n \in ListIds : \E s \in Range(nodes[n].inputNodeIds) :
        s \in ListIds /\ Edge(s, n) \in Range(last.edges)
  /\ \E n \in ListIds : \E s \in Range(nodes[n].inputNodeIds) : s \notin ListIds

\* C23: GET /horizons/:id changes no persisted node field other than the
\* parentId of active nodes of the workspace whose parentId is orphaned,
\* which it clears; isActive, children, type and inputNodeIds of every node
\* stay as they were, and a node whose parent is an active node of the
\* workspace is not changed at all.
C23_ViewWritesOnlyOrphanParents ==
  [][(last'.op = "getHorizon" /\ ops' = ops + 1) =>
       \A n \in NodeIds :
         /\ nodes'[n] = [nodes[n] EXCEPT !.parentId = nodes'[n].parentId]
         /\ nodes'[n].parentId # nodes[n].parentId =>
              /\ last'.status = 200
              /\ n \in Orphans(nodes, last'.h)
              /\ nodes'[n].parentId = 0
         /\ (\E h \in HorizonIds : nodes[n].parentId \in ActiveIn(nodes, h)
                                   /\ nodes[n].horizonId = h) =>
              nodes'[n] = nodes[n]
    ]_vars

\* a read that cleared an orphaned parentId while another active node of
\* the workspace kept its parent
C23_Witness ==
  /\ Served("getHorizon") /\ last.writes > 0
  /\ \E n \in ActiveIn(nodes, last.h) : nodes[n].parentId \in ActiveIn(nodes, last.h)

\* C24: two agent runs for the same agent node A save their output nodes
\* concurrently: under every interleaving, once both have finished exactly
\* one output node with parentId A is active, and A.children names it.
RunsDone ==
  \A p \in Procs : procs[p].pc = "done" /\ procs[p].saved # 0

ActiveOutputsOf(a) ==
  {n \in ActiveIn(nodes, nodes[a].horizonId) :
     nodes[n].parentId = a /\ nodes[n].type = "outputNode"}

C24_OneCurrentOutputAfterRuns ==
  RunsDone =>
    LET a == procs[1].target
    IN /\ Cardinality(ActiveOutputsOf(a)) = 1
       /\ \A o \in ActiveOutputsOf(a) : nodes[a].children = <<o>>

\* C25: in every reachable state, no node is active while its workspace is
\* inactive: once DELETE /horizons/:id has succeeded no later request makes
\* a node of that workspace active.
C25_NoActiveNodeInDeletedWorkspace ==
  \A n \in Stored(nodes) :
    (nodes[n].horizonId \in HorizonIds /\ ~horizons[nodes[n].horizonId].isActive)
      => ~nodes[n].isActive

\* C26: the nodes of a workspace (their existence, isActive, parentId and
\* children) are changed only by requests of a user with editor rights on
\* it: a request of any other authenticated user leaves them unchanged.
NodeFacts(store, h) ==
  [n \in NodeIds |->
     IF store[n].exists /\ store[n].horizonId = h
     THEN <<store[n].isActive, store[n].parentId, store[n].children>>
     ELSE <<>>]

C26_NonEditorsChangeNothing ==
  [][NonEditorRequest(1) =>
       \A h \in HorizonIds :
         ~HasAccess(horizons[h], 1, "editor") =>
           NodeFacts(nodes', h) = NodeFacts(nodes, h)]_vars

\* C27: in every GET /horizons/:id response, each edge of the edges list has
\* a source and a target that are both ids of nodes of the nodes list of
\* the same response.
ViewIds == {last.view[i].id : i \in 1..Len(last.view)}

C27_EdgesJoinServedNodes ==
  (last.op \in {"getHorizon", "getHorizonAsStored"} /\ last.status = 200) =>
    \A k \in 1..Len(last.edges) :
      last.edges[k].source \in ViewIds /\ last.edges[k].target \in ViewIds

\* C28: POST /nodes with parentId P runs concurrently with DELETE /nodes/P:
\* under every interleaving, once both requests have finished the new node
\* is not an active node whose parentId references the inactive node P.
C28_NoActiveChildOfDeletedParent ==
  (BothDone /\ procs[2].saved # 0) =>
    LET n == procs[2].saved
        P == procs[1].target
    IN ~(nodes[n].isActive /\ nodes[n].parentId = P /\ ~nodes[P].isActive)

\* C29: deleting a team and then restoring it returns every agent of the
\* team to the isActive value it had before the team was deleted, also the
\* agents that had been soft-deleted one by one before.
C29_TeamRestoreRoundTrip ==
  [][(/\ last.op = "deleteTeam" /\ last.status = 200
      /\ last'.op = "restoreTeam" /\ last'.status = 200 /\ last'.id = last.id) =>
       \A a \in AgentsOfTeam(agents, last.id) :
         agents'[a].isActive = (a \in last.before)]_vars

\* C30: after 5 failed password logins for an email with no successful login
\* in between, every further login attempt for that email is rejected as
\* ACCOUNT_LOCKED, without the password being checked, until the lock period
\* has run out; the failure count starts again from zero once the lock has
\* run out or a login succeeds.
\* Stated on the counter of the route: it counts the failed attempts since
\* the last success or lock expiry; the attempt that makes it 5 sets a lock
\* of LockTicks, and nothing but the end of that period lifts the lock.
LoginServed(email) ==
  /\ last'.op = "login" /\ last'.email = email
  /\ \E raw \in RawEmails, password \in Passwords : Login(raw, password)

====
